---------------------------- MODULE Spec2Model ----------------------------
(***************************************************************************)
(* A model of the Perlin flow particle visualizer (src/src/main.rs).       *)
(*                                                                         *)
(* f32 values are modelled exactly: a value is a pair <<m, e>> standing    *)
(* for m * 2^e, with m = 0 (and e = 0) or 2^23 <= |m| < 2^24.  Every        *)
(* arithmetic operator below rounds to nearest, ties to even, as the       *)
(* hardware does.  Exponent overflow, subnormals, NaN and the sign of zero *)
(* are outside the model: no value of the program comes near them within   *)
(* the bounds explored.                                                    *)
(*                                                                         *)
(* An intermediate value that is used more than once is passed on as an    *)
(* operator argument, so that it is computed once.                         *)
(***************************************************************************)
EXTENDS Integers, Sequences, FiniteSets, TLC

(***************************************************************************)
(* f32 arithmetic                                                          *)
(***************************************************************************)
Abs(x) == IF x < 0 THEN -x ELSE x

Sgn(x) == IF x < 0 THEN -1 ELSE IF x > 0 THEN 1 ELSE 0

\* number of bits of x, 0 <= x < 2^8
BitLen8(x) ==
    IF x < 16
    THEN (IF x < 4 THEN (IF x < 2 THEN x ELSE 2) ELSE (IF x < 8 THEN 3 ELSE 4))
    ELSE (IF x < 64 THEN (IF x < 32 THEN 5 ELSE 6) ELSE (IF x < 128 THEN 7 ELSE 8))

\* number of bits of x, 0 <= x < 2^31
BitLen(x) ==
    IF x < 65536
    THEN (IF x < 256 THEN BitLen8(x) ELSE 8 + BitLen8(x \div 256))
    ELSE (IF x < 16777216 THEN 16 + BitLen8(x \div 65536)
                          ELSE 24 + BitLen8(x \div 16777216))

F32Zero == <<0, 0>>

\* the significand q (with exponent e) after rounding: a carry out of 24 bits
\* moves to the exponent
RoundCarry(sign, q, e) ==
    IF q = 16777216 THEN <<sign * 8388608, e + 1>> ELSE <<sign * q, e>>

\* q the kept bits, r the dropped ones, half the weight of the first dropped
\* bit: to nearest, ties to even
RoundCut(sign, q, r, half, e, s) ==
    RoundCarry(sign,
               IF r > half \/ (r = half /\ (s = 1 \/ q % 2 = 1)) THEN q + 1 ELSE q,
               e)

\* M has n bits
RoundBits(sign, M, e, s, n) ==
    IF n <= 24 THEN <<sign * M * 2^(24 - n), e - (24 - n)>>
    ELSE RoundCut(sign, M \div 2^(n - 24), M % 2^(n - 24), 2^(n - 25), e + n - 24, s)

\* The f32 nearest to sign * (M + s) * 2^e, where 0 <= M < 2^30 and s (0 or 1)
\* says whether bits below M's last were lost (0 < the lost part < 1).
F32Round(sign, M, e, s) ==
    IF M = 0 THEN F32Zero ELSE RoundBits(sign, M, e, s, BitLen(M))

F32Neg(a) == <<-a[1], a[2]>>

\* f32::abs
F32Abs(a) == <<Abs(a[1]), a[2]>>

\* `n as f32`
F32FromInt(n) == F32Round(Sgn(n), Abs(n), 0, 0)

\* the 48-bit product as h * 2^24 + L, L < 2^25
MulRound(sign, h, L, e) ==
    F32Round(sign, (h + L \div 16777216) * 4 + (L % 16777216) \div 4194304, e,
             IF L % 4194304 = 0 THEN 0 ELSE 1)

\* hh, mid, ll: the products of the 12-bit limbs
MulSum(sign, hh, mid, ll, e) ==
    MulRound(sign, hh + mid \div 4096, (mid % 4096) * 4096 + ll, e)

MulLimbs(sign, ah, al, bh, bl, e) ==
    MulSum(sign, ah * bh, ah * bl + al * bh, al * bl, e)

\* a * b
F32Mul(a, b) ==
    IF a[1] = 0 \/ b[1] = 0 THEN F32Zero
    ELSE MulLimbs(Sgn(a[1]) * Sgn(b[1]),
                  Abs(a[1]) \div 4096, Abs(a[1]) % 4096,
                  Abs(b[1]) \div 4096, Abs(b[1]) % 4096,
                  a[2] + b[2] + 22)

AddRound(R, e) == F32Round(Sgn(R), Abs(R), e, 0)

\* S0 is the smaller operand's significand with three guard bits, d the
\* difference of the exponents; the bits shifted out are kept as a sticky bit
AddShifted(big, ssign, S0, d) ==
    AddRound(big[1] * 8
               + ssign * (IF d >= 28 THEN 1
                          ELSE S0 \div 2^d
                                 + (IF S0 % 2^d = 0 THEN 0
                                    ELSE IF (S0 \div 2^d) % 2 = 1 THEN 0 ELSE 1)),
             big[2] - 3)

\* big has the larger exponent
AddAligned(big, small) ==
    AddShifted(big, Sgn(small[1]), Abs(small[1]) * 8, big[2] - small[2])

\* a + b
F32Add(a, b) ==
    IF a[1] = 0 THEN b
    ELSE IF b[1] = 0 THEN a
    ELSE IF a[2] >= b[2] THEN AddAligned(a, b) ELSE AddAligned(b, a)

F32Sub(a, b) == F32Add(a, F32Neg(b))

\* x < y for x, y > 0
PosLt(x, y) == x[2] < y[2] \/ (x[2] = y[2] /\ x[1] < y[1])

\* a < b
F32Lt(a, b) ==
    IF a[1] < 0
    THEN (b[1] >= 0 \/ PosLt(F32Neg(b), F32Neg(a)))
    ELSE IF a[1] = 0 THEN b[1] > 0
    ELSE b[1] > 0 /\ PosLt(a, b)

F32Le(a, b) == ~F32Lt(b, a)

\* f32::max, f32::min, f32::clamp
\* f32::max left out: the first operand as it is
F32Max_NoClamp(a, b) == a

F32Max(a, b) == IF F32Lt(a, b) THEN b ELSE a

F32Min(a, b) == IF F32Lt(b, a) THEN b ELSE a

F32Clamp(x, lo, hi) == IF F32Lt(x, lo) THEN lo ELSE IF F32Lt(hi, x) THEN hi ELSE x

\* `x as i32` (and `as u8`, `as usize`, before their saturation): truncation
\* towards zero
F32Trunc(a) ==
    IF a[2] >= 0 THEN a[1] * 2^a[2]
    ELSE IF a[2] <= -24 THEN 0
    ELSE Sgn(a[1]) * (Abs(a[1]) \div 2^(-a[2]))

\* t is a truncated
FloorOf(a, t) == IF a[1] < 0 /\ F32FromInt(t) # a THEN t - 1 ELSE t

\* f32::floor, as an integer
F32Floor(a) == FloorOf(a, F32Trunc(a))

\* f32::fract: x - x.trunc(), which keeps the sign of x
F32Fract(a) == F32Sub(a, F32FromInt(F32Trunc(a)))

\* long division in base 2^7: q the quotient and r the remainder so far, n
\* digits to go.  The result is <<quotient, remainder>>.
RECURSIVE DivDigits(_, _, _, _)
DivDigits(bm, q, r, n) ==
    IF n = 0 THEN <<q, r>>
    ELSE DivDigits(bm, q * 128 + (r * 128) \div bm, (r * 128) % bm, n - 1)

DivRound(sign, qr, e) == F32Round(sign, qr[1], e, IF qr[2] = 0 THEN 0 ELSE 1)

\* a / b
F32Div(a, b) ==
    IF a[1] = 0 THEN F32Zero
    ELSE DivRound(Sgn(a[1]) * Sgn(b[1]), DivDigits(Abs(b[1]), 0, Abs(a[1]), 4),
                  a[2] - b[2] - 28)

\* The square root digit by digit: rad holds the two-bit digits still to take
\* (the next one on top of 26 bits), n counts the digits to go, root and rem
\* are the root and the remainder so far.  The result is <<root, remainder>>.
RECURSIVE SqrtDigits(_, _, _, _)
SqrtDigits(rad, n, root, rem) ==
    IF n = 0 THEN <<root, rem>>
    ELSE IF rem * 4 + rad \div 16777216 >= 4 * root + 1
    THEN SqrtDigits((rad % 16777216) * 4, n - 1, 2 * root + 1,
                    rem * 4 + rad \div 16777216 - (4 * root + 1))
    ELSE SqrtDigits((rad % 16777216) * 4, n - 1, 2 * root,
                    rem * 4 + rad \div 16777216)

SqrtRound(sr, e) == F32Round(1, sr[1], e, IF sr[2] = 0 THEN 0 ELSE 1)

\* f32::sqrt of a >= 0
F32Sqrt(a) ==
    IF a[1] = 0 THEN F32Zero
    ELSE IF a[2] % 2 # 0
    THEN SqrtRound(SqrtDigits(2 * a[1], 27, 0, 0), (a[2] - 1) \div 2 - 14)
    ELSE SqrtRound(SqrtDigits(a[1], 27, 0, 0), a[2] \div 2 - 14)

(***************************************************************************)
(* Bounds of the model                                                     *)
(***************************************************************************)
\* the window's inner size at start-up (800 x 800 logical pixels in the program)
CanvasW == 1

CanvasH == 4

\* sub-steps per particle per frame (300 in the program)
StepsPerFrame == 5

\* frames of one run of the event loop, and its key and resize events together
MaxFrames == 2

MaxEvents == 1

\* a resize event carries a width and a height in 0 .. MaxDim
MaxDim == 3

\* key runs that nudge one parameter only may be this long; runs that mix
\* parameters are MaxMixed long
MaxPresses == 44

MaxMixed == 3

\* window events (keys and resizes) of a run without frames
MaxWindowEvents == 2

\* frames of a long run, and its presses of the pause key
MaxLongFrames == 3

MaxLongPauses == 1

\* presses of F and G before a run of fades: enough to reach every fade
\* coefficient that presses reach at all (InitFade)
MaxFadeKeys == 37

\* hues of a colour run: the multiples of 1 / HueSteps below 1
HueSteps == 120

\* frames and presses of C of a mode run
MaxModeFrames == 1

MaxModeKeys == 3

\* a line run: the side of its canvas, and how far outside the canvas its
\* end points reach
LineDim == 3

LineReach == 2

\* draws of one pixel in a run
MaxDraws == 2

\* slots of a population handed to spawn_particles, and its spawn count
MaxPop == 3

MaxSpawn == 3

(***************************************************************************)
(* The program's f32 literals                                              *)
(***************************************************************************)
F32One == <<8388608, -23>>

ScaleInit == <<8589935, -31>>       \* 0.004

ZStepInit == <<8589935, -31>>       \* 0.004

ForceInit == <<13421773, -24>>      \* 0.8

FrictionInit == <<16525558, -24>>   \* 0.985

FadeInit == <<16106127, -29>>       \* 0.03

NudgeDown == <<15099494, -24>>      \* 0.9

NudgeUp == <<9319743, -23>>         \* 1.111

ScaleMin == <<8589935, -34>>        \* 0.0005

ScaleMax == <<13421773, -28>>       \* 0.05

ZStepMin == <<13743895, -37>>       \* 0.0001

ZStepMax == <<13421773, -28>>       \* 0.05

ForceMin == <<13421773, -28>>       \* 0.05

ForceMax == <<10485760, -21>>       \* 5.0

FrictionNudge == <<8589935, -32>>   \* 0.002

FrictionMin == <<15099494, -24>>    \* 0.90

FrictionMax == <<16768827, -24>>    \* 0.9995

FadeNudge == <<10737418, -30>>      \* 0.01

FadeMin == F32Zero                  \* 0.0

FadeMax == <<13421773, -26>>        \* 0.2

NoiseSeedInit == 42

(***************************************************************************)
(* State                                                                   *)
(*                                                                         *)
(* app is the App struct, its Params flattened under app.params.  Three   *)
(* fields stand for what the process does beyond the struct: app.panic is  *)
(* "none" while the process runs and names the panic that ended it         *)
(* otherwise; app.files is the set of frame counters a snapshot file was   *)
(* written for and app.saved the result of the last save_png; app.trace is *)
(* the list of the steps the last update_and_render went through, each     *)
(* with the slot it worked on (0 if none) and the depth coordinate it      *)
(* read (a sub-step also with the position it moved the particle to).      *)
(* app.rng is the position in the generator's stream (the number of values *)
(* drawn); the values themselves are inputs of the actions.                *)
(* app.perlin is the seed the noise instance was built from.               *)
(* nframes, nkeys, nresizes count the events of the run, for the bounds;   *)
(* touched is the set of parameters the run's key presses have nudged;     *)
(* origin is the frame buffer the run started with;                        *)
(* call holds the arguments, the locals and the result of the function a   *)
(* run applies on its own (hsv_to_rgb, draw_segment_additive), and is      *)
(* empty in every other run.                                               *)
(***************************************************************************)
VARIABLES app, nframes, nkeys, nresizes, touched, origin, call

vars == <<app, nframes, nkeys, nresizes, touched, origin, call>>

ColorModes == {"Direction", "Age", "Curl"}

\* every pixel opaque black: the loop of App::new and of App::resize
ClearFrame(frame) ==
    [i \in 1..Len(frame) |-> IF i % 4 = 0 THEN 255 ELSE 0]

\* Pixels::new: a zeroed buffer of width * height * 4 bytes
PixelsNew(w, h) == [i \in 1..(w * h * 4) |-> 0]

AppNew(pixels, w, h) ==
    [ width       |-> w,
      height      |-> h,
      frame       |-> ClearFrame(pixels),
      perlin      |-> NoiseSeedInit,
      noise_seed  |-> NoiseSeedInit,
      rng         |-> 0,
      params      |-> [ scale           |-> ScaleInit,
                        z               |-> F32Zero,
                        z_step          |-> ZStepInit,
                        force           |-> ForceInit,
                        friction        |-> FrictionInit,
                        steps_per_frame |-> StepsPerFrame,
                        spawn_count     |-> h \div 4,
                        fade            |-> FadeInit,
                        color_mode      |-> "Direction",
                        paused          |-> FALSE ],
      particles   |-> << >>,
      frame_index |-> 0,
      panic       |-> "none",
      files       |-> {},
      saved       |-> "none",
      trace       |-> << >> ]

\* main, up to the event loop
AppStart == AppNew(PixelsNew(CanvasW, CanvasH), CanvasW, CanvasH)

Init ==
    /\ app = AppStart
    /\ nframes = 0
    /\ nkeys = 0
    /\ nresizes = 0
    /\ touched = {}
    /\ origin = app.frame
    /\ call = << >>

(***************************************************************************)
(* Key commands                                                            *)
(***************************************************************************)
\* a cycle that never reaches Curl
cycle_color_mode_NoCurl(a) ==
    [a EXCEPT !.params.color_mode =
        IF a.params.color_mode = "Direction" THEN "Age" ELSE "Direction"]

cycle_color_mode(a) ==
    [a EXCEPT !.params.color_mode =
        CASE a.params.color_mode = "Direction" -> "Age"
          [] a.params.color_mode = "Age"       -> "Curl"
          [] a.params.color_mode = "Curl"      -> "Direction"]

\* a reseed that also takes the depth coordinate back to 0
reseed_noise_AndDepth(a, seed) ==
    [a EXCEPT !.rng = @ + 1, !.noise_seed = seed, !.perlin = seed,
              !.params.z = F32Zero]

\* seed is the u32 the generator yields
reseed_noise(a, seed) ==
    [a EXCEPT !.rng = @ + 1, !.noise_seed = seed, !.perlin = seed]

\* ImageBuffer::from_raw gives None when the data is shorter than
\* width * height * 4, and expect() panics on None; io_ok is whether the
\* file could be written
save_png(a, io_ok) ==
    IF a.width * a.height * 4 > Len(a.frame)
    THEN [a EXCEPT !.panic = "buffer dims"]
    ELSE IF io_ok
    THEN [a EXCEPT !.files = @ \cup {a.frame_index}, !.saved = "ok"]
    ELSE [a EXCEPT !.saved = "err"]

Keys == {"Space", "S", "R", "LBracket", "RBracket", "Comma", "Period", "Slash",
         "Equals", "Key9", "Key0", "F", "G", "C", "Other", "None"}

NudgeKeys == {"LBracket", "RBracket", "Comma", "Period", "Slash", "Equals",
              "Key9", "Key0", "F", "G"}

\* the parameter a nudge key changes
ParamOf(key) ==
    CASE key \in {"LBracket", "RBracket"} -> "scale"
      [] key \in {"Comma", "Period"}      -> "z_step"
      [] key \in {"Slash", "Equals"}      -> "force"
      [] key \in {"Key9", "Key0"}         -> "friction"
      [] key \in {"F", "G"}               -> "fade"

\* a handler that toggles the pause on any event of the space key, pressed
\* or released, and handles no other key
handle_key_AnyState(a, state, key, seed, io_ok) ==
    IF key = "Space" THEN [a EXCEPT !.params.paused = ~@] ELSE a

handle_key(a, state, key, seed, io_ok) ==
    IF state # "Pressed" THEN a
    ELSE CASE key = "Space"    -> [a EXCEPT !.params.paused = ~@]
           [] key = "S"        -> save_png(a, io_ok)
           [] key = "R"        -> reseed_noise(a, seed)
           [] key = "LBracket" ->
                [a EXCEPT !.params.scale = F32Max(F32Mul(@, NudgeDown), ScaleMin)]
           [] key = "RBracket" ->
                [a EXCEPT !.params.scale = F32Min(F32Mul(@, NudgeUp), ScaleMax)]
           [] key = "Comma"    ->
                [a EXCEPT !.params.z_step = F32Max(F32Mul(@, NudgeDown), ZStepMin)]
           [] key = "Period"   ->
                [a EXCEPT !.params.z_step = F32Min(F32Mul(@, NudgeUp), ZStepMax)]
           [] key = "Slash"    ->
                [a EXCEPT !.params.force = F32Max(F32Mul(@, NudgeDown), ForceMin)]
           [] key = "Equals"   ->
                [a EXCEPT !.params.force = F32Min(F32Mul(@, NudgeUp), ForceMax)]
           [] key = "Key9"     ->
                [a EXCEPT !.params.friction = F32Max(F32Sub(@, FrictionNudge), FrictionMin)]
           [] key = "Key0"     ->
                [a EXCEPT !.params.friction = F32Min(F32Add(@, FrictionNudge), FrictionMax)]
           [] key = "F"        ->
                [a EXCEPT !.params.fade = F32Min(F32Add(@, FadeNudge), FadeMax)]
           [] key = "G"        ->
                [a EXCEPT !.params.fade = F32Max(F32Sub(@, FadeNudge), FadeMin)]
           [] key = "C"        -> cycle_color_mode(a)
           [] OTHER            -> a

(***************************************************************************)
(* Compositor                                                              *)
(***************************************************************************)
\* the saturation of `as u8`
U8(x) == IF x < 0 THEN 0 ELSE IF x > 255 THEN 255 ELSE x

\* the product rounded to the nearest integer, where `as u8` truncates
fade_px_Rounded(px, fade_scale) ==
    U8(F32Trunc(F32Add(F32Mul(F32FromInt(px), fade_scale), <<8388608, -24>>)))

\* ((px as f32) * fade_scale) as u8
fade_px(px, fade_scale) == U8(F32Trunc(F32Mul(F32FromInt(px), fade_scale)))

\* the scale and the faded value of every byte for one fade coefficient
FadeRow(fade) ==
    [scale |-> F32Sub(F32One, fade),
     px    |-> [v \in 0..255 |-> fade_px(v, F32Sub(F32One, fade))] @@ << >>]

\* the fade coefficients one more press of F or G gives
FadePresses(S) ==
    S \cup { handle_key([AppStart EXCEPT !.params.fade = x], "Pressed", key,
                        NoiseSeedInit, TRUE).params.fade :
               x \in S, key \in {"F", "G"} }

\* the fade coefficients that up to n presses of F and G give from FadeInit
RECURSIVE FadeRuns(_)
FadeRuns(n) == IF n = 0 THEN {FadeInit} ELSE FadePresses(FadeRuns(n - 1))

FadeValues == FadeRuns(MaxFadeKeys)

\* FadeRow worked out once for each of the FadeValues
FadeRows == [fade \in FadeValues |-> FadeRow(fade)] @@ << >>

FadeRowOf(fade) ==
    IF fade \in DOMAIN FadeRows THEN FadeRows[fade] ELSE FadeRow(fade)

\* apply_fade from the test of fade_scale on
FadeBy(a, row) ==
    IF F32Le(F32One, row.scale) THEN a
    ELSE [a EXCEPT !.frame =
             [i \in 1..Len(@) |-> IF i % 4 = 0 THEN 255 ELSE row.px[@[i]]]]

apply_fade(a) ==
    FadeBy([a EXCEPT !.trace = Append(@, <<"fade", 0, a.params.z>>)],
           FadeRowOf(a.params.fade))

(***************************************************************************)
(* ColorMapper                                                             *)
(***************************************************************************)
F32Six == <<12582912, -21>>         \* 6.0

F32Byte == <<16711680, -16>>        \* 255.0

F32Half == <<8388608, -24>>         \* 0.5

F32Tau == <<13176795, -21>>         \* std::f32::consts::TAU

F32Pi == <<13176795, -22>>          \* std::f32::consts::PI

\* (x * 255.0).clamp(0.0, 255.0) as u8
Channel(x) == U8(F32Trunc(F32Clamp(F32Mul(x, F32Byte), F32Zero, F32Byte)))

Rgb8(rgb) == <<Channel(rgb[1]), Channel(rgb[2]), Channel(rgb[3])>>

\* the match on the sector i
HsvPick(i, v, p, q, t) ==
    Rgb8(CASE i = 0 -> <<v, t, p>>
           [] i = 1 -> <<q, v, p>>
           [] i = 2 -> <<p, v, t>>
           [] i = 3 -> <<p, q, v>>
           [] i = 4 -> <<t, p, v>>
           [] OTHER -> <<v, p, q>>)

\* the mix without the saturation: v in every channel
HsvMix_Grey(i, f, s, v) == HsvPick(i, v, v, v, v)

HsvMix(i, f, s, v) ==
    HsvPick(i, v,
            F32Mul(v, F32Sub(F32One, s)),
            F32Mul(v, F32Sub(F32One, F32Mul(f, s))),
            F32Mul(v, F32Sub(F32One, F32Mul(F32Sub(F32One, f), s))))

\* i the floor of h6
HsvSector(i, h6, s, v) == HsvMix(i % 6, F32Sub(h6, F32FromInt(i)), s, v)

HsvSix(h6, s, v) == HsvSector(F32Floor(h6), h6, s, v)

\* `if h < 0.0 { h += 1.0 }`
WrapUnit(h) == IF F32Lt(h, F32Zero) THEN F32Add(h, F32One) ELSE h

hsv_to_rgb(h0, s0, v0) ==
    HsvSix(F32Mul(WrapUnit(F32Fract(h0)), F32Six),
           F32Clamp(s0, F32Zero, F32One), F32Clamp(v0, F32Zero, F32One))

(***************************************************************************)
(* NoiseField                                                              *)
(*                                                                         *)
(* Perlin::get is a function of the seed and of the three coordinates.     *)
(* Within one frame the seed and the depth coordinate are fixed, so the    *)
(* noise is a function of the two scaled position coordinates: a field.    *)
(* A field of the model has one value where the first coordinate is below  *)
(* FieldEdge and one value elsewhere; which field a frame meets is an      *)
(* input of the frame.                                                     *)
(***************************************************************************)
NoiseE == F32Zero                   \* angle 0

NoiseS == <<8388608, -25>>          \* 0.25: a quarter turn, y grows

NoiseW == <<8388608, -24>>          \* 0.5

NoiseN == <<-8388608, -25>>         \* -0.25

FieldEdge == <<8589935, -31>>       \* 0.004: one pixel at the initial scale

\* the fields of the model: west left of the edge and east right of it, and
\* north everywhere
Fields == { [lo |-> NoiseW, hi |-> NoiseE],
            [lo |-> NoiseN, hi |-> NoiseN] }

perlin_get(fld, x, y, z) == IF F32Lt(x, FieldEdge) THEN fld.lo ELSE fld.hi

\* f32::cos and f32::sin at the angles the noise values above give
F32Cos(angle) ==
    CASE angle = F32Zero            -> F32One
      [] angle = <<13176795, -23>>  -> <<-12303662, -48>>
      [] angle = <<13176795, -22>>  -> <<-8388608, -23>>
      [] angle = <<-13176795, -23>> -> <<-12303662, -48>>

F32Sin(angle) ==
    CASE angle = F32Zero            -> F32Zero
      [] angle = <<13176795, -23>>  -> F32One
      [] angle = <<13176795, -22>>  -> <<-12303662, -47>>
      [] angle = <<-13176795, -23>> -> <<-8388608, -23>>

noise_angle(fld, scale, z, p) ==
    F32Mul(perlin_get(fld, F32Mul(p[1], scale), F32Mul(p[2], scale), z), F32Tau)

\* Vec2::new(angle.cos(), angle.sin())
UnitVec(angle) == <<F32Cos(angle), F32Sin(angle)>>

noise_dir(fld, scale, z, p) ==
    UnitVec(F32Mul(perlin_get(fld, F32Mul(p[1], scale), F32Mul(p[2], scale), z),
                   F32Tau))

(***************************************************************************)
(* glam::Vec2                                                              *)
(***************************************************************************)
Vec2Zero == <<F32Zero, F32Zero>>

Vec2Add(a, b) == <<F32Add(a[1], b[1]), F32Add(a[2], b[2])>>

Vec2Scale(a, k) == <<F32Mul(a[1], k), F32Mul(a[2], k)>>

Vec2Length(a) == F32Sqrt(F32Add(F32Mul(a[1], a[1]), F32Mul(a[2], a[2])))

F32Tan22 == <<13898701, -25>>       \* tan(pi / 8)

\* y.atan2(x) / TAU for ay = |y| and ax = |x|, resolved to the nearest eighth
\* of a turn
Atan2Abs(y, x, ay, ax) ==
    IF x[1] = 0 /\ y[1] = 0 THEN F32Zero
    ELSE IF F32Le(ay, F32Mul(ax, F32Tan22))
    THEN (IF x[1] > 0 THEN F32Zero
          ELSE IF y[1] >= 0 THEN F32Half ELSE F32Neg(F32Half))
    ELSE IF F32Le(ax, F32Mul(ay, F32Tan22))
    THEN (IF y[1] > 0 THEN <<8388608, -25>> ELSE <<-8388608, -25>>)
    ELSE IF x[1] > 0
    THEN (IF y[1] > 0 THEN <<8388608, -26>> ELSE <<-8388608, -26>>)
    ELSE (IF y[1] > 0 THEN <<12582912, -25>> ELSE <<-12582912, -25>>)

atan2_turns(y, x) == Atan2Abs(y, x, F32Abs(y), F32Abs(x))

\* the two `while` loops that bring da into [-PI, PI]
RECURSIVE WrapAngle(_)
WrapAngle(da) ==
    IF F32Lt(F32Pi, da) THEN WrapAngle(F32Sub(da, F32Tau))
    ELSE IF F32Lt(da, F32Neg(F32Pi)) THEN WrapAngle(F32Add(da, F32Tau))
    ELSE da

AgeHue == <<8589935, -32>>          \* 0.002

ValueLow == <<13421773, -27>>       \* 0.1

CurlEps == <<8388608, -22>>         \* 2.0

CurlGain == <<10066330, -24>>       \* 0.6

CurlLow == <<13421773, -26>>        \* 0.2

\* (vel.length() * gain).clamp(low, 1.0)
Brightness(vel, gain, low) == F32Clamp(F32Mul(Vec2Length(vel), gain), low, F32One)

\* the colour of one sub-step: p is the particle after the move, prev its
\* position before
color_for(a, fld, p, prev) ==
    CASE a.params.color_mode = "Direction" ->
           hsv_to_rgb(F32Add(WrapUnit(F32Fract(atan2_turns(p.vel[2], p.vel[1]))),
                             F32Mul(a.params.z, F32Half)),
                      F32One, Brightness(p.vel, F32Half, ValueLow))
      [] a.params.color_mode = "Age" ->
           hsv_to_rgb(F32Fract(F32Add(F32Mul(F32FromInt(p.age), AgeHue),
                                      F32Mul(a.params.z, F32Half))),
                      F32One, Brightness(p.vel, F32Half, ValueLow))
      [] a.params.color_mode = "Curl" ->
           hsv_to_rgb(
               F32Clamp(
                   F32Div(F32Abs(WrapAngle(
                              F32Sub(noise_angle(fld, a.params.scale, a.params.z,
                                                 Vec2Add(prev, <<CurlEps, F32Zero>>)),
                                     noise_angle(fld, a.params.scale, a.params.z,
                                                 prev)))),
                          F32Pi),
                   F32Zero, F32One),
               F32One, Brightness(p.vel, CurlGain, CurlLow))

(***************************************************************************)
(* Rasterizer                                                              *)
(***************************************************************************)
\* u8::wrapping_add
saturating_add_Wrapping(x, c) == (x + c) % 256

\* u8::saturating_add
saturating_add(x, c) == IF x + c > 255 THEN 255 ELSE x + c

\* The body of the loop for the pixel (x0, y0): the frame after it, and
\* whether an index was out of the slice's range (which panics).  Indices are
\* 0-based in the program and 1-based here.
plot(frame, width, height, x0, y0, color) ==
    IF x0 >= 0 /\ y0 >= 0 /\ x0 < width /\ y0 < height
    THEN IF (y0 * width + x0) * 4 + 3 >= Len(frame)
         THEN [frame |-> frame, panic |-> "index out of bounds"]
         ELSE [frame |->
                  [frame EXCEPT
                      ![(y0 * width + x0) * 4 + 1] = saturating_add(@, color[1]),
                      ![(y0 * width + x0) * 4 + 2] = saturating_add(@, color[2]),
                      ![(y0 * width + x0) * 4 + 3] = saturating_add(@, color[3]),
                      ![(y0 * width + x0) * 4 + 4] = 255],
               panic |-> "none"]
    ELSE [frame |-> frame, panic |-> "none"]

\* The loop of draw_segment_additive from (x0, y0) on; seg holds what the
\* loop does not change.  DrawNext is the loop's body after the plot.
\* a step that moves along both axes whatever err is
DrawStep_Both(seg, x0, y0, err) ==
    <<x0 + seg.sx, y0 + seg.sy, err + seg.dy + seg.dx>>

\* the end of the loop's body: x0, y0 and err after it
DrawStep(seg, x0, y0, err) ==
    <<IF 2 * err >= seg.dy THEN x0 + seg.sx ELSE x0,
      IF 2 * err <= seg.dx THEN y0 + seg.sy ELSE y0,
      err + (IF 2 * err >= seg.dy THEN seg.dy ELSE 0)
          + (IF 2 * err <= seg.dx THEN seg.dx ELSE 0)>>

RECURSIVE DrawLoop(_, _, _, _, _)
RECURSIVE DrawNext(_, _, _, _, _)
DrawNext(out, seg, x0, y0, err) ==
    IF out.panic # "none" THEN out
    ELSE IF x0 = seg.x1 /\ y0 = seg.y1 THEN out
    ELSE DrawLoop(out.frame, seg, DrawStep(seg, x0, y0, err)[1],
                  DrawStep(seg, x0, y0, err)[2], DrawStep(seg, x0, y0, err)[3])

DrawLoop(frame, seg, x0, y0, err) ==
    DrawNext(plot(frame, seg.width, seg.height, x0, y0, seg.color), seg, x0, y0, err)

\* what the loop does not change
Segment(width, height, color, x0, y0, x1, y1) ==
    [width |-> width, height |-> height, color |-> color,
     x1 |-> x1, y1 |-> y1,
     dx |-> Abs(x1 - x0), dy |-> -Abs(y1 - y0),
     sx |-> IF x0 < x1 THEN 1 ELSE -1,
     sy |-> IF y0 < y1 THEN 1 ELSE -1]

\* draw_segment_additive from its integer end points on
DrawLine(frame, width, height, color, x0, y0, x1, y1) ==
    DrawLoop(frame, Segment(width, height, color, x0, y0, x1, y1),
             x0, y0, Abs(x1 - x0) - Abs(y1 - y0))

draw_segment_additive(frame, width, height, p0, p1, color) ==
    DrawLine(frame, width, height, color,
             F32Trunc(p0[1]), F32Trunc(p0[2]), F32Trunc(p1[1]), F32Trunc(p1[2]))

(***************************************************************************)
(* ParticleSystem                                                          *)
(***************************************************************************)
ParticleNew(pos) == [pos |-> pos, vel |-> Vec2Zero, age |-> 0, alive |-> TRUE]

\* rng.gen_range(0.0..hi), for the generator's unit draw r in [0, 1)
gen_range(r, hi) == F32Mul(r, hi)

\* the unit draws of the model
Rands == {F32Zero, <<12582912, -24>>}     \* 0 and 0.75

\* Vec2::new(gen_range(0.0..width_f), gen_range(0.0..height_f)), r the pair of
\* unit draws
SpawnPos(r, width_f, height_f) ==
    <<gen_range(r[1], width_f), gen_range(r[2], height_f)>>

\* the first loop left out: no slot is reused
ReuseLoop_NoReuse(a, i, spawned, rnd, width_f, height_f) == <<a, spawned>>

\* The first loop of spawn_particles from slot i on (1-based): rnd[k] is the
\* pair of unit draws of the k-th particle spawned.  Gives <<app, spawned>>.
RECURSIVE ReuseLoop(_, _, _, _, _, _)
ReuseLoop(a, i, spawned, rnd, width_f, height_f) ==
    IF spawned < a.params.spawn_count /\ i <= Len(a.particles)
    THEN IF ~a.particles[i].alive
         THEN ReuseLoop([a EXCEPT
                            !.particles[i] =
                                ParticleNew(SpawnPos(rnd[spawned + 1], width_f, height_f)),
                            !.rng = @ + 2,
                            !.trace = Append(@, <<"reuse", i, a.params.z>>)],
                        i + 1, spawned + 1, rnd, width_f, height_f)
         ELSE ReuseLoop(a, i + 1, spawned, rnd, width_f, height_f)
    ELSE <<a, spawned>>

\* the second loop
RECURSIVE AppendLoop(_, _, _, _, _)
AppendLoop(a, spawned, rnd, width_f, height_f) ==
    IF spawned < a.params.spawn_count
    THEN AppendLoop([a EXCEPT
                        !.particles =
                            Append(@, ParticleNew(SpawnPos(rnd[spawned + 1],
                                                           width_f, height_f))),
                        !.rng = @ + 2,
                        !.trace = Append(@, <<"append", Len(a.particles) + 1,
                                              a.params.z>>)],
                    spawned + 1, rnd, width_f, height_f)
    ELSE a

\* the second loop, started where the first one stopped
AppendRest(reused, rnd, width_f, height_f) ==
    AppendLoop(reused[1], reused[2], rnd, width_f, height_f)

\* spawn_particles after the test of count
SpawnLoops(a, rnd, width_f, height_f) ==
    AppendRest(ReuseLoop(a, 1, 0, rnd, width_f, height_f), rnd, width_f, height_f)

spawn_particles(a, rnd) ==
    IF a.params.spawn_count = 0
    THEN [a EXCEPT !.trace = Append(@, <<"spawn", 0, a.params.z>>)]
    ELSE SpawnLoops([a EXCEPT !.trace = Append(@, <<"spawn", 0, a.params.z>>)],
                    rnd, F32FromInt(a.width), F32FromInt(a.height))

Margin == <<10485760, -20>>         \* 10.0

\* the test without its look at the top edge
Outside_NoTop(pos, width, height) ==
    \/ F32Lt(pos[1], F32Neg(Margin))
    \/ F32Lt(F32Add(F32FromInt(width), Margin), pos[1])
    \/ F32Lt(F32Add(F32FromInt(height), Margin), pos[2])

\* the test that retires a particle
Outside(pos, width, height) ==
    \/ F32Lt(pos[1], F32Neg(Margin))
    \/ F32Lt(F32Add(F32FromInt(width), Margin), pos[1])
    \/ F32Lt(pos[2], F32Neg(Margin))
    \/ F32Lt(F32Add(F32FromInt(height), Margin), pos[2])

\* The inner loop for particle i, k sub-steps of it done: SubSteps moves the
\* particle, SubStepDraw draws the segment, SubStepEnd tests the margin.  A
\* draw that panics ends the process where it stands.  (age: u32::MAX is out
\* of reach.)
RECURSIVE SubSteps(_, _, _, _)
RECURSIVE SubStepDraw(_, _, _, _, _, _)
RECURSIVE SubStepEnd(_, _, _, _, _)
\* the margin test without the break: the particle is retired and goes on
SubStepEnd_NoBreak(a, fld, i, k, drawn) ==
    IF drawn.panic # "none"
    THEN [a EXCEPT !.frame = drawn.frame, !.panic = drawn.panic]
    ELSE SubSteps([a EXCEPT !.frame = drawn.frame,
                            !.particles[i].alive =
                                @ /\ ~Outside(a.particles[i].pos, a.width, a.height)],
                  fld, i, k + 1)

SubStepEnd(a, fld, i, k, drawn) ==
    IF drawn.panic # "none"
    THEN [a EXCEPT !.frame = drawn.frame, !.panic = drawn.panic]
    ELSE IF Outside(a.particles[i].pos, a.width, a.height)
    THEN [a EXCEPT !.frame = drawn.frame, !.particles[i].alive = FALSE]
    ELSE SubSteps([a EXCEPT !.frame = drawn.frame], fld, i, k + 1)

SubStepDraw(a, fld, i, k, prev, moved) ==
    SubStepEnd([a EXCEPT !.particles[i] = moved,
                         !.trace = Append(@, <<"substep", i, a.params.z, moved.pos>>)],
               fld, i, k,
               draw_segment_additive(a.frame, a.width, a.height, prev, moved.pos,
                                     color_for(a, fld, moved, prev)))

\* vel is the particle's velocity after the force and the friction
SubStepMove(a, fld, i, k, p, vel) ==
    SubStepDraw(a, fld, i, k, p.pos,
                [p EXCEPT !.pos = Vec2Add(@, vel), !.vel = vel, !.age = @ + 1])

SubSteps(a, fld, i, k) ==
    IF k >= a.params.steps_per_frame THEN a
    ELSE SubStepMove(a, fld, i, k, a.particles[i],
                     Vec2Scale(Vec2Add(a.particles[i].vel,
                                       Vec2Scale(noise_dir(fld, a.params.scale,
                                                           a.params.z,
                                                           a.particles[i].pos),
                                                 a.params.force)),
                               a.params.friction))

\* the outer loop from particle i on
RECURSIVE StepFrom(_, _, _)
\* the outer loop without its test of the alive flag
StepFrom_StepsDead(a, fld, i) ==
    IF i > Len(a.particles) \/ a.panic # "none" THEN a
    ELSE StepFrom(SubSteps(a, fld, i, 0), fld, i + 1)

StepFrom(a, fld, i) ==
    IF i > Len(a.particles) \/ a.panic # "none" THEN a
    ELSE IF ~a.particles[i].alive THEN StepFrom(a, fld, i + 1)
    ELSE StepFrom(SubSteps(a, fld, i, 0), fld, i + 1)

step_particles(a, fld) ==
    StepFrom([a EXCEPT !.trace = Append(@, <<"step", 0, a.params.z>>)], fld, 1)

(***************************************************************************)
(* The frame.  A panic ends the process where it happens: what would       *)
(* follow it in the frame does not run.                                    *)
(***************************************************************************)
\* self.params.z += self.params.z_step
advance_z(a) ==
    IF a.panic # "none" THEN a
    ELSE [a EXCEPT !.params.z = F32Add(@, a.params.z_step),
                   !.trace = Append(@, <<"advance", 0, a.params.z>>)]

\* the simulation without the test of the paused flag
simulate_WhilePaused(a, fld, rnd) ==
    advance_z(step_particles(spawn_particles(a, rnd), fld))

\* `if !self.params.paused { ... }`
simulate(a, fld, rnd) ==
    IF a.params.paused THEN a
    ELSE advance_z(step_particles(spawn_particles(a, rnd), fld))

\* the fade after the simulation
update_FadeLast(a, fld, rnd) ==
    apply_fade(simulate([a EXCEPT !.trace = << >>], fld, rnd))

\* update_and_render up to pixels.render()
update(a, fld, rnd) == simulate(apply_fade([a EXCEPT !.trace = << >>]), fld, rnd)

\* pixels.render() and the frame counter
present(a, render_ok) ==
    IF a.panic # "none" THEN a
    ELSE [a EXCEPT !.frame_index = IF render_ok THEN @ + 1 ELSE @,
                   !.trace = Append(@, <<"present", 0, a.params.z>>)]

(***************************************************************************)
(* Resize                                                                  *)
(***************************************************************************)
\* Pixels::resize_buffer leaving the byte vector as it is
resize_buffer_Same(frame, w, h) == frame

\* Pixels::resize_buffer, when it succeeds: the byte vector is cut or
\* extended with zeroes to width * height * 4
resize_buffer(frame, w, h) ==
    [i \in 1..(w * h * 4) |-> IF i <= Len(frame) THEN frame[i] ELSE 0]

\* resize without the test for a width or height of 0
resize_NoZeroTest(a, w, h, ok) ==
    IF ~ok THEN [a EXCEPT !.width = w, !.height = h]
    ELSE [a EXCEPT !.width = w, !.height = h,
                   !.frame = ClearFrame(resize_buffer(@, w, h))]

\* resize without the loop that clears the frame
resize_NoClear(a, w, h, ok) ==
    IF w = 0 \/ h = 0 THEN a
    ELSE IF ~ok THEN [a EXCEPT !.width = w, !.height = h]
    ELSE [a EXCEPT !.width = w, !.height = h, !.frame = resize_buffer(@, w, h)]

\* ok: whether Pixels::resize_buffer succeeds
resize(a, w, h, ok) ==
    IF w = 0 \/ h = 0 THEN a
    ELSE IF ~ok THEN [a EXCEPT !.width = w, !.height = h]
    ELSE [a EXCEPT !.width = w, !.height = h,
                   !.frame = ClearFrame(resize_buffer(@, w, h))]

\* WindowEvent::Resized and WindowEvent::ScaleFactorChanged
on_resized(a, w, h, ok) ==
    IF w > 0 /\ h > 0 THEN resize(a, w, h, ok) ELSE a

\* the u32 values a reseed may draw
Seeds == {7, 42}

\* the widths and heights a resize event may carry
Dims == {0, 1, MaxDim}

(***************************************************************************)
(* The event loop: one action per event the closure of main handles.  A    *)
(* panic ends the process: no event is handled after it.                   *)
(***************************************************************************)
\* Event::RedrawRequested: update_and_render, with the noise field, the
\* generator's draws and the outcome of pixels.render() as inputs
Frame ==
    /\ \E fld \in Fields, rnd \in [1..app.params.spawn_count -> Rands \X Rands] :
         \E updated \in {update(app, fld, rnd)} :
            \E render_ok \in BOOLEAN : app' = present(updated, render_ok)
    /\ nframes' = nframes + 1
    /\ UNCHANGED <<nkeys, nresizes, touched, origin, call>>

\* WindowEvent::KeyboardInput: handle_key.  The value a reseed draws and the
\* outcome of writing the snapshot file are inputs of the keys that use them.
KeyEvent ==
    /\ \E state \in {"Pressed", "Released"}, key \in Keys :
         \E seed \in (IF key = "R" THEN Seeds ELSE {NoiseSeedInit}),
            io_ok \in (IF key = "S" THEN BOOLEAN ELSE {TRUE}) :
              app' = handle_key(app, state, key, seed, io_ok)
    /\ nkeys' = nkeys + 1
    /\ UNCHANGED <<nframes, nresizes, touched, origin, call>>

\* WindowEvent::Resized, WindowEvent::ScaleFactorChanged
ResizeEvent ==
    /\ \E w \in Dims, h \in Dims, ok \in BOOLEAN :
            app' = on_resized(app, w, h, ok)
    /\ nresizes' = nresizes + 1
    /\ UNCHANGED <<nframes, nkeys, touched, origin, call>>

Redraw == app.panic = "none" /\ nframes < MaxFrames /\ Frame

KeyboardInput == app.panic = "none" /\ nkeys + nresizes < MaxEvents /\ KeyEvent

Resized == app.panic = "none" /\ nkeys + nresizes < MaxEvents /\ ResizeEvent

Next == Redraw \/ KeyboardInput \/ Resized

Spec == Init /\ [][Next]_vars

(***************************************************************************)
(* Key runs: the window delivers presses of the parameter keys only.  A    *)
(* run that stays with one parameter is up to MaxPresses long, long enough *)
(* to reach either end of every range; a run that mixes parameters is up   *)
(* to MaxMixed long.                                                       *)
(***************************************************************************)
NudgePressed(key) ==
    /\ app.panic = "none"
    /\ \/ nkeys < MaxMixed
       \/ nkeys < MaxPresses /\ touched \subseteq {ParamOf(key)}
    /\ app' = handle_key(app, "Pressed", key, NoiseSeedInit, TRUE)
    /\ nkeys' = nkeys + 1
    /\ touched' = touched \cup {ParamOf(key)}
    /\ UNCHANGED <<nframes, nresizes, origin, call>>

NextKeys == \E key \in NudgeKeys : NudgePressed(key)

SpecKeys == Init /\ [][NextKeys]_vars

(***************************************************************************)
(* Window runs: key and resize events with no frame in between.            *)
(***************************************************************************)
WindowKey == app.panic = "none" /\ nkeys + nresizes < MaxWindowEvents /\ KeyEvent

WindowResize ==
    app.panic = "none" /\ nkeys + nresizes < MaxWindowEvents /\ ResizeEvent

NextWindow == WindowKey \/ WindowResize

SpecWindow == Init /\ [][NextWindow]_vars

(***************************************************************************)
(* Long runs: frames, and presses of the pause key between them.           *)
(***************************************************************************)
LongRedraw == app.panic = "none" /\ nframes < MaxLongFrames /\ Frame

LongPause ==
    /\ app.panic = "none"
    /\ nkeys < MaxLongPauses
    /\ app' = handle_key(app, "Pressed", "Space", NoiseSeedInit, TRUE)
    /\ nkeys' = nkeys + 1
    /\ UNCHANGED <<nframes, nresizes, touched, origin, call>>

NextLong == LongRedraw \/ LongPause

SpecLong == Init /\ [][NextLong]_vars

(***************************************************************************)
(* Spawn runs: one call of spawn_particles on a population of up to MaxPop *)
(* slots, each alive or dead, with a spawn count of up to MaxSpawn (a      *)
(* window that many times four rows high at start-up, resized since).      *)
(***************************************************************************)
\* a particle that has moved
UsedParticle(alive) ==
    [pos |-> <<F32Zero, F32One>>, vel |-> <<F32One, F32Half>>, age |-> 7,
     alive |-> alive]

Populations ==
    UNION {[1..n -> {UsedParticle(TRUE), UsedParticle(FALSE)}] : n \in 0..MaxPop}

InitSpawn ==
    /\ \E pop \in Populations, n \in 0..MaxSpawn :
          app = [AppStart EXCEPT !.particles = pop, !.params.spawn_count = n]
    /\ nframes = 0
    /\ nkeys = 0
    /\ nresizes = 0
    /\ touched = {}
    /\ origin = app.frame
    /\ call = << >>

Spawn ==
    /\ nframes = 0
    /\ \E rnd \in [1..app.params.spawn_count -> Rands \X Rands] :
          app' = spawn_particles([app EXCEPT !.trace = << >>], rnd)
    /\ nframes' = 1
    /\ UNCHANGED <<nkeys, nresizes, touched, origin, call>>

SpecSpawn == InitSpawn /\ [][Spawn]_vars

(***************************************************************************)
(* Fade runs: apply_fade again and again on a buffer, with nothing drawn   *)
(* in between.  The buffer's pixels start with any two of the Bytes in the *)
(* red and green channels; the fade coefficient is any that presses of F   *)
(* and G reach.  The event loop asks for a redraw whenever it has handled  *)
(* its events (ControlFlow::Poll, MainEventsCleared), so the fade is       *)
(* applied again as long as the process runs.                              *)
(***************************************************************************)
Bytes == {0, 1, 2, 127, 128, 254, 255}

InitFade ==
    /\ FadePresses(FadeValues) = FadeValues
    /\ \E fade \in FadeValues, r \in Bytes, g \in Bytes :
          app = [AppStart EXCEPT
                    !.params.fade = fade,
                    !.frame = [i \in 1..Len(@) |->
                                  CASE i % 4 = 1 -> r
                                    [] i % 4 = 2 -> g
                                    [] i % 4 = 3 -> 255 - r
                                    [] OTHER     -> 255]]
    /\ nframes = 0
    /\ nkeys = 0
    /\ nresizes = 0
    /\ touched = {}
    /\ origin = app.frame
    /\ call = << >>

FadeAgain ==
    /\ app' = apply_fade([app EXCEPT !.trace = << >>])
    /\ UNCHANGED <<nframes, nkeys, nresizes, touched, origin, call>>

SpecFade == InitFade /\ [][FadeAgain]_vars /\ WF_vars(FadeAgain)

(***************************************************************************)
(* Draw runs: up to MaxDraws segments that start and end in the pixel      *)
(* (0, 1), each in one of the DrawColors, on a buffer whose pixels start   *)
(* with any two of the Bytes in the red and green channels.  app.trace     *)
(* lists the colours drawn.                                                *)
(***************************************************************************)
DrawColors == {<<c, 255 - c, 250>> : c \in Bytes}

DrawPoint == <<F32Zero, F32One>>

InitDraw ==
    /\ \E r \in Bytes, g \in Bytes :
          app = [AppStart EXCEPT
                    !.frame = [i \in 1..Len(@) |->
                                  CASE i % 4 = 1 -> r
                                    [] i % 4 = 2 -> g
                                    [] i % 4 = 3 -> 0
                                    [] OTHER     -> 255]]
    /\ nframes = 0
    /\ nkeys = 0
    /\ nresizes = 0
    /\ touched = {}
    /\ origin = app.frame
    /\ call = << >>

Draw ==
    /\ nframes < MaxDraws
    /\ \E color \in DrawColors :
          app' = [app EXCEPT
                     !.frame = draw_segment_additive(@, app.width, app.height,
                                                     DrawPoint, DrawPoint, color).frame,
                     !.trace = Append(@, <<"draw", 0, color>>)]
    /\ nframes' = nframes + 1
    /\ UNCHANGED <<nkeys, nresizes, touched, origin, call>>

SpecDraw == InitDraw /\ [][Draw]_vars

(***************************************************************************)
(* Properties                                                              *)
(***************************************************************************)
DeadSlots(ps) == {i \in 1..Len(ps) : ~ps[i].alive}

\* a particle as Particle::new leaves it
Fresh(p) == p.alive /\ p.age = 0 /\ p.vel = Vec2Zero

\* the n dead slots of ps with the lowest indices
LowestDead(ps, n) ==
    {i \in DeadSlots(ps) : Cardinality({j \in DeadSlots(ps) : j < i}) < n}

\* the slots the entries of a trace named `what` worked on
Worked(trace, what) ==
    {trace[k][2] : k \in {j \in 1..Len(trace) : trace[j][1] = what}}

\* how many entries of a trace are named `what`
Count(trace, what) == Cardinality({k \in 1..Len(trace) : trace[k][1] = what})

Min2(x, y) == IF x < y THEN x ELSE y

\* what spawn_particles owes: old and new are the populations before and
\* after, n the spawn count, r the number of slots to revive
SpawnContract(old, new, n, r) ==
    /\ Len(new) = Len(old) + n - r
    /\ \A i \in 1..Len(old) :
          IF i \in LowestDead(old, r) THEN Fresh(new[i]) ELSE new[i] = old[i]
    /\ \A i \in (Len(old) + 1)..Len(new) : Fresh(new[i])
    /\ (Len(new) > Len(old) => DeadSlots(new) = {})

\* C1: one call of spawn_particles on a population with d dead slots and a
\* spawn count of n revives the min(n, d) dead slots of lowest index, leaves
\* every other slot as it was, appends n - min(n, d) new particles, and
\* appends none while a dead slot is left.
C1_SpawnReusesDeadSlotsFirst ==
    [][nframes' # nframes =>
          SpawnContract(app.particles, app'.particles, app.params.spawn_count,
                        Min2(app.params.spawn_count,
                             Cardinality(DeadSlots(app.particles))))]_vars

\* a call that revived a slot and appended a particle, next to a slot it left
C1_Witness ==
    /\ nframes = 1
    /\ Count(app.trace, "reuse") > 0
    /\ Count(app.trace, "append") > 0
    /\ \E i \in 1..Len(app.particles) : app.particles[i] = UsedParticle(TRUE)

\* C2: a particle that a frame's sub-step leaves outside the canvas widened
\* by the margin is dead at the end of that frame; and a dead slot is not
\* stepped, not drawn and not changed by any frame or command, unless the
\* frame's spawn pass reuses it.
C2_DeadSlotsRest ==
    [][/\ \A i \in DeadSlots(app.particles) :
             \/ nframes' # nframes /\ i \in Worked(app'.trace, "reuse")
             \/ /\ app'.particles[i] = app.particles[i]
                /\ nframes' # nframes => i \notin Worked(app'.trace, "substep")
       /\ nframes' # nframes /\ app'.panic = "none" =>
             \A i \in Worked(app'.trace, "substep") :
                 app'.particles[i].alive =
                     ~Outside(app'.particles[i].pos, app'.width, app'.height)
      ]_vars

\* the end of a frame that stepped particles and passed over a dead slot,
\* while another particle left the canvas and died
C2_Witness ==
    /\ Count(app.trace, "step") = 1
    /\ \E i \in DeadSlots(app.particles) : i \notin Worked(app.trace, "substep")
    /\ \E i \in DeadSlots(app.particles) : i \in Worked(app.trace, "substep")

\* lo <= x <= hi
InRange(x, lo, hi) == F32Le(lo, x) /\ F32Le(x, hi)

\* C3: after any run of key presses from the initial parameters, each of
\* scale, z_step, force, friction and fade is inside its range, the ends of
\* the ranges being the f32 values of the documented numbers.
C3_ParamsInRange ==
    /\ InRange(app.params.scale, ScaleMin, ScaleMax)
    /\ InRange(app.params.z_step, ZStepMin, ZStepMax)
    /\ InRange(app.params.force, ForceMin, ForceMax)
    /\ InRange(app.params.friction, FrictionMin, FrictionMax)
    /\ InRange(app.params.fade, FadeMin, FadeMax)

\* z_step held at the low end of its range by presses that would take it
\* lower
C3_Witness == app.params.z_step = ZStepMin /\ nkeys >= 40

\* C4: no frame ends in an access outside the buffer, whatever resize
\* failed before it.
C4_NoCrashAfterFailedResize == app.panic # "index out of bounds"

\* C5: no snapshot command ends the process, whatever the buffer's length.
C5_SnapshotNeverFatal == app.panic # "buffer dims"

\* every alpha byte is 255
Opaque(frame) == \A i \in 1..Len(frame) : i % 4 = 0 => frame[i] = 255

\* every red, green and blue byte is 0
Black(frame) == \A i \in 1..Len(frame) : i % 4 # 0 => frame[i] = 0

\* C6: with a fade coefficient above 0, applying apply_fade again and again
\* makes every red, green and blue byte 0 in the end; no application makes
\* one of them larger; every application leaves every alpha byte 255; and
\* with a fade coefficient of 0 an application leaves the buffer as it was.
C6_FadeToBlack ==
    /\ [][/\ \A i \in 1..Len(app.frame) : app'.frame[i] <= app.frame[i]
          /\ Len(app'.frame) = Len(app.frame)
          /\ Opaque(app'.frame)
          /\ app.params.fade = F32Zero => app'.frame = app.frame]_vars
    /\ (F32Lt(F32Zero, app.params.fade) => <>(Black(app.frame) /\ Opaque(app.frame)))

\* a buffer that started with a full channel, faded to black by the
\* smallest fade coefficient above 0
C6_Witness ==
    /\ Black(app.frame)
    /\ origin[1] = 255
    /\ F32Lt(F32Zero, app.params.fade)
    /\ \A fade \in FadeValues :
          F32Lt(F32Zero, fade) => F32Le(app.params.fade, fade)

\* the place of a step in the frame
Rank(what) ==
    CASE what = "fade"    -> 1
      [] what = "spawn"   -> 2
      [] what = "reuse"   -> 3
      [] what = "append"  -> 4
      [] what = "step"    -> 5
      [] what = "substep" -> 6
      [] what = "advance" -> 7
      [] what = "present" -> 8

\* t is the trace of a frame that ran to its end, z the depth coordinate
\* before the frame and z1 the one after it
FrameShape(paused, t, z, z1) ==
    /\ Len(t) >= 2
    /\ t[1][1] = "fade"
    /\ Count(t, "fade") = 1
    /\ t[Len(t)] = <<"present", 0, z1>>
    /\ Count(t, "present") = 1
    /\ \A k \in 1..(Len(t) - 1) : Rank(t[k][1]) <= Rank(t[k + 1][1]) /\ t[k][3] = z
    /\ IF paused THEN Len(t) = 2 /\ z1 = z
       ELSE Count(t, "spawn") = 1 /\ Count(t, "step") = 1 /\ Count(t, "advance") = 1

\* C7: a rendered frame applies the fade once and before anything else;
\* when not paused it then spawns, steps all particles, advances the depth
\* coordinate and presents, in that order, so that every sub-step reads the
\* depth coordinate the frame started with; when paused it only presents.
C7_FrameOrder ==
    [][nframes' # nframes /\ app'.panic = "none" =>
          FrameShape(app.params.paused, app'.trace, app.params.z, app'.params.z)]_vars

\* the end of a frame that stepped a particle
C7_Witness ==
    /\ app.panic = "none"
    /\ Count(app.trace, "substep") >= StepsPerFrame
    /\ Count(app.trace, "present") = 1

\* C8: a frame rendered while paused changes nothing but the buffer and the
\* frame counter: the particles, the depth coordinate, the generator and
\* every parameter are as before.
C8_PausedFrameKeepsParticles ==
    [][nframes' # nframes /\ app.params.paused =>
          /\ app'.particles = app.particles
          /\ app'.params = app.params
          /\ app'.rng = app.rng
          /\ [app' EXCEPT !.frame = app.frame, !.frame_index = app.frame_index,
                          !.trace = app.trace] = app]_vars

\* the end of a paused frame that faded what a particle had drawn
C8_Witness ==
    /\ app.params.paused
    /\ Len(app.trace) = 2
    /\ Len(app.particles) > 0
    /\ ~Black(app.frame)

\* the sum of channel c of the colours a trace lists, from entry k on
RECURSIVE DrawnSum(_, _, _)
DrawnSum(trace, c, k) ==
    IF k > Len(trace) THEN 0 ELSE trace[k][3][c] + DrawnSum(trace, c, k + 1)

\* the index of the first byte of the pixel drawn on
DrawBase == (F32Trunc(DrawPoint[2]) * app.width + F32Trunc(DrawPoint[1])) * 4

\* C9: after colours are drawn on a pixel, in any order, each of its red,
\* green and blue bytes is min(255, a + the sum of the colours' channel),
\* a being the byte before the draws; its alpha byte is 255 and no other
\* pixel has changed.
C9_AdditiveSaturating ==
    \A i \in 1..Len(app.frame) :
        app.frame[i] =
            IF i \in (DrawBase + 1)..(DrawBase + 3)
            THEN Min2(255, origin[i] + DrawnSum(app.trace, i - DrawBase, 1))
            ELSE origin[i]

\* 250 drawn twice on a channel at 0 gives 255, and the draw of two
\* different colours has saturated a channel
C9_Witness ==
    /\ Len(app.trace) = 2
    /\ origin[DrawBase + 3] = 0
    /\ app.frame[DrawBase + 3] = 255
    /\ app.trace[1][3] # app.trace[2][3]
    /\ origin[DrawBase + 1] + DrawnSum(app.trace, 1, 1) > 255

\* C10: the alpha byte of every pixel of the buffer is 255.
C10_AlphaOpaque == Opaque(app.frame)

\* a buffer that a resize made larger and a frame has drawn on
C10_Witness ==
    /\ Len(app.frame) > Len(origin)
    /\ ~Black(app.frame)


\* C11: a resize request with a width or a height of 0 changes nothing,
\* whether it reaches App::resize through the window event or directly:
\* width, height, buffer, particles, parameters and the panic state are as
\* before.
C11_ZeroResizeIsNoOp ==
    \A w \in Dims, h \in Dims, ok \in BOOLEAN :
        (w = 0 \/ h = 0) =>
            resize(app, w, h, ok) = app /\ on_resized(app, w, h, ok) = app

\* a resize event has been handled after a frame, and the canvas has the
\* size it started with (every other size an event carries differs from it)
C11_Witness ==
    /\ nresizes = 1
    /\ Len(app.particles) > 0
    /\ app.width = CanvasW
    /\ app.height = CanvasH
    /\ Len(app.frame) = Len(origin)

\* r is a with the canvas resized to w by h and cleared
ResizedTo(a, r, w, h) ==
    /\ r.width = w
    /\ r.height = h
    /\ r.frame = [i \in 1..(w * h * 4) |-> IF i % 4 = 0 THEN 255 ELSE 0]
    /\ r = [a EXCEPT !.width = w, !.height = h, !.frame = r.frame]

\* C12: a resize to a width and height above 0 that succeeds leaves a buffer
\* of width * height pixels, each (0, 0, 0, 255), and changes nothing else:
\* particles, parameters, pause flag, noise seed and frame counter are as
\* before.
C12_ResizeClears ==
    \A w \in Dims \ {0}, h \in Dims \ {0} :
        ResizedTo(app, resize(app, w, h, TRUE), w, h)

\* a larger canvas, cleared by a resize that kept the particles of a frame
C12_Witness ==
    /\ nresizes = 1
    /\ app.width = MaxDim
    /\ Len(app.frame) = MaxDim * MaxDim * 4
    /\ Black(app.frame)
    /\ Len(app.particles) > 0

(***************************************************************************)
(* Colour runs: one call of hsv_to_rgb with saturation 1 and value 1 on    *)
(* one of the Hues, the f32 values nearest n / HueSteps for n below        *)
(* HueSteps, which include the sector boundaries k / 6.                    *)
(***************************************************************************)
Hue(n) == F32Div(F32FromInt(n), F32FromInt(HueSteps))

\* k thirds of the hue circle
Third(k) == F32Div(F32FromInt(k), F32FromInt(3))

Hues == {Hue(n) : n \in 0..(HueSteps - 1)} \cup {Third(1), Third(2)}

Hsv ==
    /\ call = << >>
    /\ \E h \in Hues :
          call' = [fn |-> "hsv_to_rgb", h |-> h,
                   rgb |-> hsv_to_rgb(h, F32One, F32One)]
    /\ UNCHANGED <<app, nframes, nkeys, nresizes, touched, origin>>

SpecHsv == Init /\ [][Hsv]_vars

\* how many channels of a colour are c
Channels(rgb, c) == Cardinality({k \in 1..3 : rgb[k] = c})

\* C13: for a hue in [0, 1) with saturation 1 and value 1, hsv_to_rgb gives
\* a colour with at least one channel at 255 and at least one channel at 0;
\* at the hues 0, 1/3 and 2/3 it gives pure red, green and blue, where two
\* channels are 0.
C13_HsvFullColour ==
    call # << >> =>
        /\ Channels(call.rgb, 255) >= 1
        /\ Channels(call.rgb, 0) >= 1
        /\ (call.h = Hue(0) => call.rgb = <<255, 0, 0>>)
        /\ (call.h = Third(1) => call.rgb = <<0, 255, 0>>)
        /\ (call.h = Third(2) => call.rgb = <<0, 0, 255>>)

\* the call at the sector boundary 1/3
C13_Witness == call # << >> /\ call.h = Third(1) /\ call.rgb[2] = 255

\* C13 as stated: the colour has exactly one channel at 0.
C13_ExactlyOneZero == call # << >> => Channels(call.rgb, 0) = 1

(***************************************************************************)
(* Mode runs: presses of C, and frames between them.                       *)
(***************************************************************************)
ModeRedraw == app.panic = "none" /\ nframes < MaxModeFrames /\ Frame

ModeCycle ==
    /\ app.panic = "none"
    /\ nkeys < MaxModeKeys
    /\ app' = handle_key(app, "Pressed", "C", NoiseSeedInit, TRUE)
    /\ nkeys' = nkeys + 1
    /\ UNCHANGED <<nframes, nresizes, touched, origin, call>>

SpecMode == Init /\ [][ModeRedraw \/ ModeCycle]_vars

\* the mode the claim puts after mode m
ModeAfter(m) ==
    CASE m = "Direction" -> "Age" [] m = "Age" -> "Curl" [] m = "Curl" -> "Direction"

PressC(a) == handle_key(a, "Pressed", "C", NoiseSeedInit, TRUE)

\* what the commands do to the mode of a state
ModeCommands(a) ==
    /\ PressC(a) = [a EXCEPT !.params.color_mode = ModeAfter(@)]
    /\ PressC(PressC(PressC(a))) = a
    /\ \A state \in {"Pressed", "Released"}, key \in Keys \ {"C"},
          seed \in Seeds, io_ok \in BOOLEAN :
          handle_key(a, state, key, seed, io_ok).params.color_mode
              = a.params.color_mode
    /\ handle_key(a, "Released", "C", NoiseSeedInit, TRUE) = a
    /\ \A w \in Dims, h \in Dims, ok \in BOOLEAN :
          on_resized(a, w, h, ok).params.color_mode = a.params.color_mode

\* C14: a press of C takes Direction to Age, Age to Curl and Curl to
\* Direction and changes nothing else, so that three presses give the mode
\* back; no other key event, no resize and no frame changes the mode.
C14_ModeCycle ==
    /\ []ModeCommands(app)
    /\ [][/\ nframes' # nframes => app'.params.color_mode = app.params.color_mode
          /\ nkeys' # nkeys =>
                app'.params.color_mode = ModeAfter(app.params.color_mode)]_vars

\* three presses have brought Direction back, in a run with a frame that
\* stepped a particle
C14_Witness ==
    /\ nkeys = MaxModeKeys
    /\ app.params.color_mode = "Direction"
    /\ app.frame_index = 1
    /\ \E i \in 1..Len(app.particles) : app.particles[i].age > 0
    /\ Len(app.trace) > 0 /\ app.trace[Len(app.trace)][3] # F32Zero

\* the seeds and the outcomes of the file write that matter to a key
SeedsOf(key) == IF key = "R" THEN Seeds ELSE {NoiseSeedInit}

WritesOf(key) == IF key = "S" THEN BOOLEAN ELSE {TRUE}

\* C15: the release of any key, and the press of a key that no command is
\* mapped to (or that has no key code), leaves the whole application state
\* as it is.
C15_IgnoredKeys ==
    /\ \A key \in Keys : \A seed \in SeedsOf(key), io_ok \in WritesOf(key) :
          handle_key(app, "Released", key, seed, io_ok) = app
    /\ \A key \in {"Other", "None"} :
          handle_key(app, "Pressed", key, NoiseSeedInit, TRUE) = app

\* a key event has been handled in a run with a frame, and nothing a command
\* changes has changed
C15_Witness ==
    /\ nkeys = 1
    /\ Len(app.particles) > 0
    /\ [app.params EXCEPT !.z = F32Zero] = AppStart.params
    /\ app.rng % 2 = 0
    /\ app.saved = "none"
    /\ app.panic = "none"

\* the entries of a trace that are sub-steps of slot i
StepsOf(t, i) == {k \in 1..Len(t) : t[k][1] = "substep" /\ t[k][2] = i}

LastOf(S) == CHOOSE k \in S : \A j \in S : j <= k

\* the slots a trace's spawn pass filled
Spawned(t) == Worked(t, "reuse") \cup Worked(t, "append")

\* What step_particles owes slot i: old and new are the populations before
\* and after the frame whose trace is t, w and h the canvas, n the number of
\* sub-steps of a frame.
SubStepRule(old, new, t, i, w, h, n) ==
    IF i \notin Spawned(t) /\ ~old[i].alive
    THEN StepsOf(t, i) = {}
    ELSE /\ Cardinality(StepsOf(t, i)) \in 1..n
         /\ new[i].age = (IF i \in Spawned(t) THEN 0 ELSE old[i].age)
                             + Cardinality(StepsOf(t, i))
         /\ \A k \in StepsOf(t, i) :
               Outside(t[k][4], w, h) <=> (k = LastOf(StepsOf(t, i)) /\ ~new[i].alive)
         /\ new[i].alive => Cardinality(StepsOf(t, i)) = n
         /\ t[LastOf(StepsOf(t, i))][4] = new[i].pos

\* C16: in a call of step_particles every particle alive at its start makes
\* sub-steps (each moving, ageing and drawing it) until it has made
\* steps_per_frame of them or the sub-step just made has left it outside the
\* widened canvas; it makes none after that one, and the particles in the
\* slots after it make theirs all the same.  Dead slots make none.
C16_SubStepsUntilOutside ==
    [][nframes' # nframes /\ ~app.params.paused /\ app'.panic = "none" =>
          \A i \in 1..Len(app'.particles) :
              SubStepRule(app.particles, app'.particles, app'.trace, i,
                          app'.width, app'.height, app.params.steps_per_frame)]_vars

\* a frame in which a particle left after fewer sub-steps than a frame has,
\* and a particle in a later slot made all of its sub-steps
C16_Witness ==
    /\ app.panic = "none"
    /\ \E i \in 1..Len(app.particles) :
          /\ Cardinality(StepsOf(app.trace, i)) \in 1..(StepsPerFrame - 1)
          /\ \E j \in (i + 1)..Len(app.particles) :
                Cardinality(StepsOf(app.trace, j)) = StepsPerFrame

(***************************************************************************)
(* Line runs: one call of draw_segment_additive, one pass of its loop per  *)
(* step, on a black canvas of LineDim by LineDim pixels, between any two   *)
(* points whose coordinates are up to LineReach outside it.  call holds    *)
(* the end points and the colour, the loop's x0, y0 and err, the pixels    *)
(* visited so far and whether the loop has ended.  A loop that has started *)
(* runs on: the process has one thread.                                    *)
(***************************************************************************)
LinePoints ==
    (-LineReach..(LineDim - 1 + LineReach)) \X (-LineReach..(LineDim - 1 + LineReach))

LineSeg == Segment(app.width, app.height, call.color,
                   call.p0[1], call.p0[2], call.p1[1], call.p1[2])

InitLine ==
    /\ app = AppNew(PixelsNew(LineDim, LineDim), LineDim, LineDim)
    /\ nframes = 0
    /\ nkeys = 0
    /\ nresizes = 0
    /\ touched = {}
    /\ origin = app.frame
    /\ \E p0 \in LinePoints, p1 \in LinePoints :
          call = [fn |-> "draw_segment_additive", p0 |-> p0, p1 |-> p1,
                  x0 |-> p0[1], y0 |-> p0[2],
                  err |-> Abs(p1[1] - p0[1]) - Abs(p1[2] - p0[2]),
                  color |-> <<1, 1, 1>>, visited |-> << >>, done |-> FALSE]

\* one pass of the loop: the plot, the test for the end, the step
LineStep ==
    /\ app.panic = "none"
    /\ ~call.done
    /\ \E out \in {plot(app.frame, app.width, app.height, call.x0, call.y0, call.color)} :
          app' = [app EXCEPT !.frame = out.frame, !.panic = out.panic]
    /\ call' = IF call.x0 = call.p1[1] /\ call.y0 = call.p1[2]
               THEN [call EXCEPT !.visited = Append(@, <<call.x0, call.y0>>),
                                 !.done = TRUE]
               ELSE [call EXCEPT
                        !.visited = Append(@, <<call.x0, call.y0>>),
                        !.x0 = DrawStep(LineSeg, call.x0, call.y0, call.err)[1],
                        !.y0 = DrawStep(LineSeg, call.x0, call.y0, call.err)[2],
                        !.err = DrawStep(LineSeg, call.x0, call.y0, call.err)[3]]
    /\ UNCHANGED <<nframes, nkeys, nresizes, touched, origin>>

SpecLine == InitLine /\ [][LineStep]_vars /\ WF_vars(LineStep)

Max2(x, y) == IF x > y THEN x ELSE y

\* the pixels a segment has to visit: max(|x1 - x0|, |y1 - y0|) + 1
LineLength(p0, p1) == Max2(Abs(p1[1] - p0[1]), Abs(p1[2] - p0[2])) + 1

\* the four bytes of the pixel (x, y) of a frame w pixels wide
PixelAt(frame, w, x, y) == [k \in 1..4 |-> frame[(y * w + x) * 4 + k]]

\* the loop so far: the pixels visited are different ones, start at p0 and
\* are no more than the segment's length; the buffer has its length, a
\* pixel of the canvas that was visited has had the colour added and every
\* other byte is as it was; no index was out of range
LineSoFar ==
    /\ Len(call.visited) <= LineLength(call.p0, call.p1)
    /\ \A j, k \in 1..Len(call.visited) : j # k => call.visited[j] # call.visited[k]
    /\ Len(call.visited) > 0 => call.visited[1] = call.p0
    /\ app.panic = "none"
    /\ Len(app.frame) = app.width * app.height * 4
    /\ \A x \in 0..(app.width - 1), y \in 0..(app.height - 1) :
          PixelAt(app.frame, app.width, x, y) =
              IF \E k \in 1..Len(call.visited) : call.visited[k] = <<x, y>>
              THEN <<1, 1, 1, 255>>
              ELSE PixelAt(origin, app.width, x, y)

\* the loop at its end: it has visited as many pixels as the segment is
\* long, the last of them p1, and the buffer is the one the whole call gives
LineAtEnd ==
    call.done =>
        /\ Len(call.visited) = LineLength(call.p0, call.p1)
        /\ call.visited[Len(call.visited)] = call.p1
        /\ app.frame = DrawLine(origin, app.width, app.height, call.color,
                                call.p0[1], call.p0[2], call.p1[1], call.p1[2]).frame

\* C17: between any two integer end points, inside or outside the canvas,
\* the loop of draw_segment_additive ends, having visited
\* max(|x1 - x0|, |y1 - y0|) + 1 different pixels from p0 to p1; it changes
\* the visited pixels that are inside the canvas and no others, and reads or
\* writes no index outside the buffer of width * height * 4 bytes.
C17_LineVisits == [](LineSoFar /\ LineAtEnd) /\ <>call.done

\* the end of a segment from outside the canvas to outside it, across it
C17_Witness ==
    /\ call.done
    /\ call.p0 = <<-LineReach, 0>>
    /\ call.p1 = <<LineDim - 1 + LineReach, LineDim>>
    /\ \E x \in 0..(app.width - 1), y \in 1..(app.height - 1) :
          /\ \E k \in 1..Len(call.visited) : call.visited[k] = <<x, y>>
          /\ PixelAt(app.frame, app.width, x, y) = <<1, 1, 1, 255>>

\* r is a but for the parameter a nudge key changes
OwnParameter(a, r, key) ==
    r = [a EXCEPT !.params = [@ EXCEPT ![ParamOf(key)] = r.params[ParamOf(key)]]]

\* r is a but for the noise seed, the noise instance and the generator
OwnSeed(a, r) ==
    r = [a EXCEPT !.noise_seed = r.noise_seed, !.perlin = r.perlin, !.rng = r.rng]

\* r has the particles, the buffer, the depth coordinate and the frame
\* counter of a
KeepsScene(a, r) ==
    /\ r.particles = a.particles
    /\ r.frame = a.frame
    /\ r.params.z = a.params.z
    /\ r.frame_index = a.frame_index

\* C18: a press of a nudge key changes its own parameter and nothing else;
\* a press of the space key changes the pause flag and nothing else; a press
\* of R changes the noise seed, the noise instance and the generator's state
\* and nothing else; and no key event changes the particles, the buffer, the
\* depth coordinate or the frame counter.
C18_CommandsKeepToTheirOwn ==
    /\ \A key \in NudgeKeys :
          OwnParameter(app, handle_key(app, "Pressed", key, NoiseSeedInit, TRUE), key)
    /\ handle_key(app, "Pressed", "Space", NoiseSeedInit, TRUE)
          = [app EXCEPT !.params.paused = ~@]
    /\ \A seed \in Seeds : OwnSeed(app, handle_key(app, "Pressed", "R", seed, TRUE))
    /\ \A state \in {"Pressed", "Released"}, key \in Keys :
          \A seed \in SeedsOf(key), io_ok \in WritesOf(key) :
              KeepsScene(app, handle_key(app, state, key, seed, io_ok))

\* the scale nudged in a run whose frame has spawned a particle and advanced
\* the depth coordinate
C18_Witness ==
    /\ nkeys = 1
    /\ Len(app.particles) > 0
    /\ app.params.scale # ScaleInit
    /\ app.params.z # F32Zero
    /\ [app.params EXCEPT !.scale = ScaleInit, !.z = F32Zero] = AppStart.params

\* -10 <= x <= width + 10 and -10 <= y <= height + 10
InsideMargin(pos, w, h) ==
    /\ F32Le(F32Neg(Margin), pos[1])
    /\ F32Le(pos[1], F32Add(F32FromInt(w), Margin))
    /\ F32Le(F32Neg(Margin), pos[2])
    /\ F32Le(pos[2], F32Add(F32FromInt(h), Margin))

\* 0 <= x < width and 0 <= y < height
InsideCanvas(pos, w, h) ==
    /\ F32Le(F32Zero, pos[1])
    /\ F32Lt(pos[1], F32FromInt(w))
    /\ F32Le(F32Zero, pos[2])
    /\ F32Lt(pos[2], F32FromInt(h))

\* new is what a spawn pass may make of old on a canvas of w by h
SpawnStarts(old, new, w, h) ==
    /\ Len(new) >= Len(old)
    /\ \A i \in 1..Len(new) :
          \/ i <= Len(old) /\ new[i] = old[i]
          \/ /\ i <= Len(old) => ~old[i].alive
             /\ Fresh(new[i])
             /\ InsideCanvas(new[i].pos, w, h)

\* C19: a frame that is not paused ends with every live particle inside the
\* canvas of the moment widened by the margin of 10; and a spawn pass, from
\* any state and with any draws of the generator, starts its particles
\* alive, at rest, at age 0 and inside the canvas, and leaves the particles
\* that were alive as they were.
C19_AliveInsideMargin ==
    /\ [](\A rnd \in [1..app.params.spawn_count -> Rands \X Rands] :
             SpawnStarts(app.particles, spawn_particles(app, rnd).particles,
                         app.width, app.height))
    /\ [][nframes' # nframes /\ ~app.params.paused /\ app'.panic = "none" =>
             \A i \in 1..Len(app'.particles) :
                 app'.particles[i].alive =>
                     InsideMargin(app'.particles[i].pos, app'.width, app'.height)]_vars

\* the end of a frame on a canvas that a resize has made smaller, with a
\* particle that stayed inside and one that left
C19_Witness ==
    /\ nresizes = 1
    /\ app.height < CanvasH
    /\ app.panic = "none"
    /\ Count(app.trace, "step") = 1
    /\ \E i, j \in 1..Len(app.particles) :
          /\ app.particles[i].alive /\ app.particles[i].age > 0
          /\ ~app.particles[j].alive

\* C20: the buffer holds width * height * 4 bytes, width and height being
\* the stored size of the canvas.
C20_BufferMatchesCanvas == Len(app.frame) = app.width * app.height * 4

=============================================================================
